---------------------------- MODULE Spec2Model ----------------------------
(***************************************************************************)
(* Model of pyked/converters.py: the ReSpecTh XML -> ChemKED converter.    *)
(*                                                                         *)
(* An XML element with optional children or attributes is a function whose *)
(* DOMAIN is the set of children / attributes that are present, so that    *)
(* root.find(x) is None  <=>  x \notin DOMAIN root, and elem.attrib[x]     *)
(* raises KeyError  <=>  x \notin DOMAIN elem.  A Python dict is a function *)
(* whose DOMAIN is its key set.  Every extractor is an operator returning  *)
(* [err |-> <exception class or "none">, val |-> <returned value>].        *)
(*                                                                         *)
(* Two specifications:                                                     *)
(*   Spec        - each extractor called on its own on a document root;    *)
(*   SpecConvert - convert_ReSpecTh_to_ChemKED, stage by stage.            *)
(***************************************************************************)
EXTENDS Integers, Sequences, FiniteSets, TLC

VARIABLES
    root,        \* the parsed document (etree root) handed to the extractors
    lookup,      \* what habanero.Crossref().works(ids=doi) does when called
    args,        \* file_author / file_author_orcid overrides of the converter
    fn,          \* the function being run
    pc,          \* position: "call", a stage of the converter, "return", "raise"
    err,         \* the exception that propagated out, "none" if none
    properties,  \* the value returned / the record assembled so far
    heap,        \* object identity of the record's values after the broadcast
    edited,      \* the in-place edit applied to the broadcast record, if any
    outfile,     \* the output YAML file: "absent", "empty" or "written"
    ran          \* the stages of the converter executed so far, in order

vars ==
    <<root, lookup, args, fn, pc, err, properties, heap, edited, outfile, ran>>

(***************************************************************************)
(* Bounds of the model.                                                    *)
(***************************************************************************)
MaxAuthors == 2      \* authors in a Crossref answer
MaxSpecies == 3      \* components of an initial composition
MaxProps == 2        \* property blocks under commonProperties
MaxTargetLen == 3    \* length of the exhaustively enumerated target strings
MaxRows == 2         \* dataPoint rows of the primary dataGroup
MaxGroups == 3       \* dataGroup tables in a document

(***************************************************************************)
(* Generic helpers: Python dicts and lists.                                *)
(***************************************************************************)
EmptyDict == [k \in {} |-> 0]

\* every dict with keys drawn from K and values drawn from V
Dicts(K, V) == UNION {[S -> V] : S \in SUBSET K}

\* all sequences over S of length lo..hi
SeqsOf(S, lo, hi) == UNION {[1..n -> S] : n \in lo..hi}

Ok(v) == [err |-> "none", val |-> v]
Raise(e) == [err |-> e, val |-> EmptyDict]

(***************************************************************************)
(* The exception classes, converters.py lines 32-63.                       *)
(***************************************************************************)
\* KeywordError and its subclasses
KeywordErrorClass ==
    {"KeywordError", "MissingElementError", "MissingAttributeError",
     "UndefinedKeywordError"}

(***************************************************************************)
(* get_reference, lines 106-165.                                           *)
(***************************************************************************)
\* int(s) on the volume strings of the model; "S1" is not a number
IsIntText(s) == s \in {"7", "12"}
IntOf(s) == CASE s = "7" -> 7 [] s = "12" -> 12 [] OTHER -> 0

\* lines 149-156: one author entry of the reference
author_entry(author) ==
    LET name == [name |-> <<author.given, author.family>>]
    IN  IF "ORCID" \in DOMAIN author /\ author.ORCID # ""
        THEN name @@ [ORCID |-> author.ORCID]
        ELSE name

\* lines 140-156: the fields taken from the Crossref message ref
reference_fields(ref) ==
    IF "container-title" \notin DOMAIN ref THEN Raise("TypeError")
    ELSE IF ~ ({"published-print", "published-online"} \cap DOMAIN ref # {})
    THEN Raise("TypeError")
    ELSE IF "volume" \notin DOMAIN ref THEN Raise("TypeError")
    ELSE IF ~ IsIntText(ref["volume"]) THEN Raise("ValueError")
    ELSE IF "author" \notin DOMAIN ref THEN Raise("KeyError")
    ELSE LET ref_year == IF "published-print" \in DOMAIN ref
                         THEN ref["published-print"]
                         ELSE ref["published-online"]
         IN  Ok([journal |-> ref["container-title"],
                 year    |-> ref_year,
                 volume  |-> IntOf(ref["volume"]),
                 pages   |-> IF "page" \in DOMAIN ref THEN ref["page"] ELSE "None",
                 authors |-> [i \in DOMAIN ref["author"] |->
                                 author_entry(ref["author"][i])]])

\* lines 129-138: what the handler of HTTPError / habanero.RequestError does:
\* self._error(field, ...) inside a module-level function, where neither
\* self nor field is bound, raises NameError out of the handler
doi_not_found == Raise("NameError")

\* citation_fallback with the key defaulted instead of omitted
citation_fallback_defaulted(elem, reference) ==
    [citation |-> IF "preferredKey" \in DOMAIN elem
                  THEN elem["preferredKey"] ELSE ""] @@ reference

\* lines 158-163: the fallback when no doi is given; a bibliographyLink
\* without preferredKey is warned about and leaves the reference as it is
citation_fallback(elem, reference) ==
    IF "preferredKey" \in DOMAIN elem
    THEN [citation |-> elem["preferredKey"]] @@ reference
    ELSE reference

get_reference(rt, lk) ==
    IF "bibliographyLink" \notin DOMAIN rt THEN Raise("AttributeError")
    ELSE
    LET elem == rt["bibliographyLink"]
        reference == IF "doi" \in DOMAIN elem
                     THEN [doi |-> elem["doi"]] ELSE EmptyDict
    IN  IF "doi" \in DOMAIN reference
        THEN CASE lk.outcome \in {"HTTPError", "RequestError"} -> doi_not_found
               [] lk.outcome \in {"ConnectionError", "UnboundLocalError"} ->
                    Ok(reference)
               [] OTHER ->
                    LET f == reference_fields(lk.message)
                    IN  IF f.err # "none" THEN f ELSE Ok(f.val @@ reference)
        ELSE Ok(citation_fallback(elem, reference))

(***************************************************************************)
(* get_experiment_kind, lines 168-199.                                     *)
(***************************************************************************)
SupportedKinds == {"shock tube", "rapid compression machine"}

\* lines 190-197: the try block and its bare except, which catches whatever
\* the block raised (AttributeError of a missing element, NotImplementedError
\* of an unsupported kind) and raises MissingElementError instead
apparatus_kind(rt) ==
    LET tried == IF "apparatus/kind" \notin DOMAIN rt
                 THEN Raise("AttributeError")
                 ELSE IF rt["apparatus/kind"] \in SupportedKinds
                 THEN Ok(rt["apparatus/kind"])
                 ELSE Raise("NotImplementedError")
    IN  IF tried.err # "none" THEN Raise("MissingElementError") ELSE tried

get_experiment_kind(rt) ==
    IF "experimentType" \notin DOMAIN rt THEN Raise("AttributeError")
    ELSE IF rt["experimentType"] # "Ignition delay measurement"
    THEN Raise("KeywordError")
    ELSE LET k == apparatus_kind(rt)
         IN  IF k.err # "none" THEN k
             ELSE Ok(("experiment-type" :> "ignition delay") @@
                     ("apparatus" :> [kind |-> k.val, institution |-> "",
                                      facility |-> ""]))

(***************************************************************************)
(* Quantity strings.  ' '.join([value, units]) and value + ' ' + units are *)
(* kept as the pair <<value, units>>; a property value is a one-element    *)
(* list holding it.                                                        *)
(***************************************************************************)
\* lines 257-258 and 393-394: the one unit spelling that is rewritten
torr_units(units) == IF units = "Torr" THEN "torr" ELSE units

quantity(value, units) == << <<value, units>> >>

(***************************************************************************)
(* get_common_properties, lines 202-274.                                   *)
(***************************************************************************)
CompositionKinds == {"mole fraction", "mass fraction"}

\* composition_type is None (<<>>) or a string (<<units>>); Python's
\* "not composition_type" is true of None and of the empty string
NoneType == <<>>
falsy(composition_type) ==
    composition_type = NoneType \/ composition_type[1] = ""

\* lines 226-240: the species entry built from one component
species_entry(child) ==
    LET spec == [species_name |-> child.preferredKey,
                 amount |-> <<child.amount>>]
    IN  IF "InChI" \in DOMAIN child
        THEN spec @@ [InChI |-> child["InChI"]] ELSE spec

\* lines 242-246: the consistency check made after appending component i;
\* the new composition_type, or the inconsistency error
composition_check(composition_type, units) ==
    IF falsy(composition_type) THEN Ok(<<units>>)
    ELSE IF composition_type[1] # units THEN Raise("KeywordError")
    ELSE Ok(composition_type)

\* lines 225-246: the loop over the components, from component i on
RECURSIVE composition_loop(_, _, _, _)
composition_loop(components, i, composition_type, species) ==
    IF i > Len(components) THEN Ok([ctype |-> composition_type,
                                    species |-> species])
    ELSE LET child == components[i]
             c == composition_check(composition_type, child.units)
         IN  IF c.err # "none" THEN c
             ELSE composition_loop(components, i + 1, c.val,
                                   Append(species, species_entry(child)))

\* lines 221-248: an 'initial composition' block
initial_composition(elem) ==
    LET l == composition_loop(elem.component, 1, NoneType, <<>>)
    IN  IF l.err # "none" THEN l
        ELSE IF l.val.ctype = NoneType \/ l.val.ctype[1] \notin CompositionKinds
        THEN Raise("AssertionError")
        ELSE Ok([species |-> l.val.species, kind |-> l.val.ctype[1]])

\* forbidden_for without the legality check
forbidden_for_unchecked(rt, kind) ==
    IF "apparatus/kind" \notin DOMAIN rt THEN Raise("AttributeError")
    ELSE Ok(TRUE)

\* lines 261-265 and 268-271: the apparatus-dependent legality of a block
forbidden_for(rt, kind) ==
    IF "apparatus/kind" \notin DOMAIN rt THEN Raise("AttributeError")
    ELSE IF rt["apparatus/kind"] = kind THEN Raise("KeywordError")
    ELSE Ok(TRUE)

\* lines 219-272: one property block; the key and value it stores, if any
common_property(rt, elem) ==
    CASE elem.name = "initial composition" ->
           LET c == initial_composition(elem)
           IN  IF c.err # "none" THEN c ELSE Ok([composition |-> c.val])
      [] elem.name = "temperature" ->
           Ok([temperature |-> quantity(elem.value, elem.units)])
      [] elem.name = "pressure" ->
           Ok([pressure |-> quantity(elem.value, torr_units(elem.units))])
      [] elem.name = "pressure rise" ->
           LET a == forbidden_for(rt, "rapid compression machine")
           IN  IF a.err # "none" THEN a
               ELSE Ok(("pressure-rise" :> quantity(elem.value, elem.units)))
      [] elem.name = "compression time" ->
           LET a == forbidden_for(rt, "shock tube")
           IN  IF a.err # "none" THEN a
               ELSE Ok(("compression-time" :> quantity(elem.value, elem.units)))
      [] OTHER -> Ok(EmptyDict)

\* lines 218-274: the loop over commonProperties/property, from block i on
RECURSIVE common_loop(_, _, _)
common_loop(rt, i, props) ==
    IF i > Len(rt["commonProperties"]) THEN Ok(props)
    ELSE LET p == common_property(rt, rt["commonProperties"][i])
         IN  IF p.err # "none" THEN p
             ELSE common_loop(rt, i + 1, p.val @@ props)

get_common_properties(rt) ==
    IF "commonProperties" \notin DOMAIN rt THEN Ok(EmptyDict)
    ELSE common_loop(rt, 1, EmptyDict)

(***************************************************************************)
(* get_ignition_type, lines 277-354.  The target attribute is a string of  *)
(* characters, because it is stripped, upper-cased and split.              *)
(***************************************************************************)
\* str.upper() on the characters of the model
upper_char(c) ==
    CASE c = "p" -> "P" [] c = "t" -> "T" [] c = "o" -> "O" [] c = "h" -> "H"
      [] c = "c" -> "C" [] c = "e" -> "E" [] c = "x" -> "X" [] OTHER -> c

upper(s) == [i \in DOMAIN s |-> upper_char(s[i])]

\* str.rstrip(';')
RECURSIVE rstrip(_)
rstrip(s) ==
    IF s # <<>> /\ s[Len(s)] = ";" THEN rstrip(SubSeq(s, 1, Len(s) - 1)) ELSE s

\* str.split(';'): the pieces between the semicolons
RECURSIVE split(_)
split(s) ==
    IF \E i \in DOMAIN s : s[i] = ";"
    THEN LET i == CHOOSE k \in DOMAIN s :
                     s[k] = ";" /\ \A j \in 1..(k - 1) : s[j] # ";"
         IN  <<SubSeq(s, 1, i - 1)>> \o split(SubSeq(s, i + 1, Len(s)))
    ELSE <<s>>

\* line 298
normalize_target(target) == upper(rstrip(target))

\* multiple_targets splitting on the wrong separator: never more than one
multiple_targets_unsplit(ign_target) == Len(<<ign_target>>) > 1

\* line 307
multiple_targets(ign_target) == Len(split(ign_target)) > 1

OHEX == <<"O", "H", "E", "X">>
CHEX == <<"C", "H", "E", "X">>
OHstar == <<"O", "H", "*">>
CHstar == <<"C", "H", "*">>
PRESSURE == <<"p", "r", "e", "s", "s", "u", "r", "e">>
TEMPERATURE == <<"t", "e", "m", "p", "e", "r", "a", "t", "u", "r", "e">>

\* lines 312-315
excited_species(ign_target) ==
    CASE ign_target = OHEX -> OHstar
      [] ign_target = CHEX -> CHstar
      [] OTHER -> ign_target

\* line 317
AcceptedTargets == {<<"P">>, <<"T">>, <<"O", "H">>, OHstar, CHstar, <<"C", "H">>}

\* lines 320-324
IgnitionTypes ==
    {"max", "d/dt max", "baseline max intercept from d/dt",
     "baseline min intercept from d/dt", "concentration",
     "relative concentration"}

\* lines 327-329
BaselineTypes ==
    {"baseline max intercept from d/dt", "baseline min intercept from d/dt"}

\* line 340
ConcentrationTypes == {"concentration", "relative concentration"}

\* lines 332-335
rename_target(ign_target) ==
    CASE ign_target = <<"P">> -> PRESSURE
      [] ign_target = <<"T">> -> TEMPERATURE
      [] OTHER -> ign_target

\* concentration_branch rejecting before it validates
concentration_branch_unvalidated(elem) == Raise("NotImplementedError")

\* lines 340-352: the concentration branch, which never returns
concentration_branch(elem) ==
    IF "amount" \notin DOMAIN elem THEN Raise("MissingAttributeError")
    ELSE IF "units" \notin DOMAIN elem THEN Raise("MissingAttributeError")
    ELSE Raise("NotImplementedError")

\* lines 306-354: the checks made once target and type have been read
ignition_checks(elem, target0, ign_type) ==
    IF multiple_targets(target0) THEN Raise("NotImplementedError")
    ELSE LET ign_target == excited_species(target0)
         IN  IF ign_target \notin AcceptedTargets
             THEN Raise("UndefinedKeywordError")
             ELSE IF ign_type \notin IgnitionTypes
             THEN Raise("UndefinedKeywordError")
             ELSE IF ign_type \in BaselineTypes
             THEN Raise("NotImplementedError")
             ELSE IF ign_type \in ConcentrationTypes
             THEN concentration_branch(elem)
             ELSE Ok([type |-> ign_type,
                      target |-> rename_target(ign_target)])

get_ignition_type(rt) ==
    IF "ignitionType" \notin DOMAIN rt THEN Raise("MissingElementError")
    ELSE LET elem == rt["ignitionType"]
         IN  IF "target" \notin DOMAIN elem
             THEN Raise("MissingAttributeError")
             ELSE IF "type" \notin DOMAIN elem
             THEN Raise("MissingAttributeError")
             ELSE ignition_checks(elem, normalize_target(elem["target"]),
                                  elem["type"])

(***************************************************************************)
(* get_datapoints, lines 357-430.  A dataGroup is                          *)
(* [property |-> list of [id, name, units], dataPoint |-> list of rows],   *)
(* a row being the list of its [tag, text] children.                       *)
(***************************************************************************)
\* float(text) on the cell texts of the model
FloatOf(text) ==
    CASE text = "1.0" -> 1 [] text = "2.0" -> 2 [] text = "3.0" -> 3
      [] text = "4.0" -> 4 [] OTHER -> 0

\* lines 381-386: unit_id and property_id of the primary dataGroup; a later
\* property with the same id overwrites an earlier one
RECURSIVE column_ids(_, _, _)
column_ids(props, i, ids) ==
    IF i > Len(props) THEN ids
    ELSE LET prop == props[i]
             name == IF prop.name = "ignition delay"
                     THEN "ignition-delay" ELSE prop.name
         IN  column_ids(props, i + 1,
                        (prop.id :> [units |-> prop.units, name |-> name])
                            @@ ids)

\* lines 390-395: one dataPoint row, from child i on
RECURSIVE datapoint_row(_, _, _, _)
datapoint_row(ids, dp, i, datapoint) ==
    IF i > Len(dp) THEN Ok(datapoint)
    ELSE LET val == dp[i]
         IN  IF val.tag \notin DOMAIN ids THEN Raise("KeyError")
             ELSE datapoint_row(ids, dp, i + 1,
                      (ids[val.tag].name :>
                          quantity(val.text, torr_units(ids[val.tag].units)))
                      @@ datapoint)

\* lines 389-396: the rows of the primary dataGroup, from row i on
RECURSIVE primary_rows(_, _, _, _)
primary_rows(ids, rows, i, datapoints) ==
    IF i > Len(rows) THEN Ok(datapoints)
    ELSE LET d == datapoint_row(ids, rows[i], 1, EmptyDict)
         IN  IF d.err # "none" THEN d
             ELSE primary_rows(ids, rows, i + 1, Append(datapoints, d.val))

\* lines 404-410: the last property named `name` of the second dataGroup;
\* its position, 0 when there is none (time_dict / volume_dict stay unbound)
history_column(props, name) ==
    LET found == {i \in DOMAIN props : props[i].name = name}
    IN  IF found = {} THEN 0
        ELSE CHOOSE i \in found : \A j \in found : j <= i

\* lines 416-423: one [time, volume] pair; NoneType where the row has no
\* child with that tag, else the float of the last such child
history_cell(dp, tag) ==
    LET found == {i \in DOMAIN dp : dp[i].tag = tag}
    IN  IF found = {} THEN NoneType
        ELSE <<FloatOf(dp[CHOOSE i \in found : \A j \in found : j <= i].text)>>

\* lines 403-425: the volume history read from the second dataGroup
read_volume_history(dataGroup) ==
    LET props == dataGroup.property
        t == history_column(props, "time")
        v == history_column(props, "volume")
    IN  IF t = 0 \/ v = 0 THEN Raise("UnboundLocalError")
        ELSE LET time_tag == props[t].id
                 volume_tag == props[v].id
                 \* a row's child is matched against time_tag first (elif)
                 volume_cells(dp) ==
                     SelectSeq(dp, LAMBDA val : val.tag # time_tag)
             IN  Ok([time |-> [units |-> props[t].units, column |-> 0],
                     volume |-> [units |-> props[v].units, column |-> 1],
                     values |-> [i \in DOMAIN dataGroup.dataPoint |->
                         <<history_cell(dataGroup.dataPoint[i], time_tag),
                           history_cell(volume_cells(dataGroup.dataPoint[i]),
                                        volume_tag)>>]])

\* second_group_asserts without the assertion on the number of datapoints
second_group_asserts_kind_only(rt, datapoints) ==
    IF "apparatus/kind" \notin DOMAIN rt THEN Raise("AttributeError")
    ELSE IF rt["apparatus/kind"] # "rapid compression machine"
    THEN Raise("AssertionError")
    ELSE Ok(TRUE)

\* lines 399-401: the two assertions guarding the second dataGroup
second_group_asserts(rt, datapoints) ==
    IF "apparatus/kind" \notin DOMAIN rt THEN Raise("AttributeError")
    ELSE IF rt["apparatus/kind"] # "rapid compression machine"
    THEN Raise("AssertionError")
    ELSE IF Len(datapoints) # 1 THEN Raise("AssertionError")
    ELSE Ok(TRUE)

\* lines 398-428: what the number of dataGroups decides
attach_history(rt, dataGroups, datapoints) ==
    IF Len(dataGroups) = 2
    THEN LET a == second_group_asserts(rt, datapoints)
         IN  IF a.err # "none" THEN a
             ELSE LET h == read_volume_history(dataGroups[2])
                  IN  IF h.err # "none" THEN h
                      ELSE Ok([datapoints EXCEPT
                                 ![1] = ("volume-history" :> h.val) @@ @])
    ELSE IF Len(dataGroups) > 2 THEN Raise("NotImplementedError")
    ELSE Ok(datapoints)

get_datapoints(rt) ==
    LET dataGroups == IF "dataGroup" \in DOMAIN rt THEN rt["dataGroup"] ELSE <<>>
    IN  IF Len(dataGroups) = 0 THEN Raise("IndexError")
        ELSE LET ids == column_ids(dataGroups[1].property, 1, EmptyDict)
                 d == primary_rows(ids, dataGroups[1].dataPoint, 1, <<>>)
             IN  IF d.err # "none" THEN d
                 ELSE attach_history(rt, dataGroups, d.val)

(***************************************************************************)
(* get_file_metadata, lines 66-103.  An element's text is NoneType for an  *)
(* empty element and <<s>> otherwise.                                      *)
(***************************************************************************)
\* float(major + '.' + minor) parses iff both parts are digit strings
IsDigits(s) == s \in {"0", "1", "2", "5"}
DigitsOf(s) == CASE s = "1" -> 1 [] s = "2" -> 2 [] s = "5" -> 5 [] OTHER -> 0

\* lines 89-98: major.text + '.' is evaluated before minor is looked up; only
\* the AttributeError of a missing child is caught
file_version(rt) ==
    IF "fileVersion" \notin DOMAIN rt THEN Ok(0)
    ELSE LET elem == rt["fileVersion"]
         IN  IF "major" \notin DOMAIN elem THEN Ok(0)
             ELSE IF elem["major"] = NoneType THEN Raise("TypeError")
             ELSE IF "minor" \notin DOMAIN elem THEN Ok(0)
             ELSE IF elem["minor"] = NoneType THEN Raise("TypeError")
             ELSE IF ~ (IsDigits(elem["major"][1]) /\ IsDigits(elem["minor"][1]))
             THEN Raise("ValueError")
             ELSE Ok(DigitsOf(elem["major"][1]))

\* the package version, line 28
chemked_version == "__version__"

get_file_metadata(rt) ==
    LET name == IF "fileAuthor" \in DOMAIN rt THEN rt["fileAuthor"] ELSE <<"">>
        v == file_version(rt)
    IN  IF v.err # "none" THEN v
        ELSE Ok(("file-author" :> [name |-> name]) @@
                ("file-version" :> v.val) @@
                ("chemked-version" :> chemked_version))

(***************************************************************************)
(* The documents of the model.                                             *)
(***************************************************************************)
\* Crossref answers: an error, or a message
Authors ==
    {[given |-> "A", family |-> "B"],
     [given |-> "A", family |-> "B", ORCID |-> "0000-0001"]}

Messages ==
    {("container-title" :> "J") @@ ("page" :> "1-9") @@ d @@ v @@ a :
        d \in Dicts({"published-print", "published-online"}, {2001}),
        v \in Dicts({"volume"}, {"12", "S1"}),
        a \in {("author" :> s) : s \in SeqsOf(Authors, 0, MaxAuthors)}}

LookupErrors ==
    {"HTTPError", "RequestError", "ConnectionError", "UnboundLocalError"}

Lookups ==
    {[outcome |-> e] : e \in LookupErrors} \cup
    {[outcome |-> "message", message |-> m] : m \in Messages}

BibliographyLinks ==
    {d @@ k : d \in Dicts({"doi"}, {"", "10.1000/1"}),
              k \in Dicts({"preferredKey"}, {"Smith2001"})}

ApparatusKinds == SupportedKinds \cup {"flow reactor", ""}

ExperimentTypes == {"Ignition delay measurement", "Flame speed measurement"}

\* components of a composition: the amount units vary
AmountUnits == {"", "mole fraction", "mass fraction", "ppm"}

Component(units) == [preferredKey |-> "H2", amount |-> "0.5", units |-> units]

Composition(unitlist) ==
    [name |-> "initial composition",
     component |-> [i \in DOMAIN unitlist |-> Component(unitlist[i])]]

Property(name, units) == [name |-> name, value |-> "1.0", units |-> units]

\* property blocks next to which a composition, or a forbidden block, stands
PropertyBlocks ==
    {Property("temperature", "K"), Property("pressure", "Torr"),
     Property("pressure", "atm"), Property("pressure rise", "1/ms"),
     Property("compression time", "ms"), Property("residence time", "s"),
     Composition(<<"mole fraction", "mole fraction">>),
     Composition(<<"mole fraction", "mass fraction">>),
     Composition(<<"ppm", "ppm">>),
     Composition(<<>>)}

\* ignition targets: every string over a few characters up to MaxTargetLen,
\* and the longer spellings the code names
TargetChars == {"P", "p", ";", "X"}

TargetStrings ==
    SeqsOf(TargetChars, 0, MaxTargetLen) \cup
    {<<"T">>, <<"t", ";">>, <<"O", "H">>, <<"o", "h">>, OHEX, <<"o", "h", "e", "x">>,
     OHEX \o <<";">>, CHEX, <<"C", "H">>, OHstar, CHstar,
     <<"O", "H", ";", "C", "H">>, <<"O", "H", ";", ";">>, <<"O", "H", "E">>}

TypeStrings == IgnitionTypes \cup {"min", ""}

IgnitionElements ==
    {t @@ y @@ a @@ u :
        t \in Dicts({"target"}, TargetStrings),
        y \in Dicts({"type"}, TypeStrings),
        a \in Dicts({"amount"}, {"0.1"}),
        u \in Dicts({"units"}, {"mole fraction"})}

\* dataGroup tables: the columns of the primary table are a subset of
\* ColumnNames (in this order), every row has one cell per column
ColumnNames ==
    <<"ignition delay", "temperature", "pressure", "time", "volume",
      "pressure-rise", "volume-history">>

ColumnUnits ==
    <<"ms", "K", "Torr", "s", "cm3", "1/ms", "cm3">>

CellTexts == <<"1.0", "2.0", "3.0", "4.0">>

ColumnId(c) == <<"x", c>>

\* the table with the columns cols (positions in ColumnNames) and nrows rows
RECURSIVE Ascending(_)
Ascending(S) ==
    IF S = {} THEN <<>>
    ELSE LET m == CHOOSE x \in S : \A y \in S : x <= y
         IN  <<m>> \o Ascending(S \ {m})

Table(cols, nrows) ==
    LET order == Ascending(cols)
    IN  [property |-> [i \in DOMAIN order |->
                          [id |-> ColumnId(order[i]),
                           name |-> ColumnNames[order[i]],
                           units |-> ColumnUnits[order[i]]]],
         dataPoint |-> [r \in 1..nrows |->
                          [i \in DOMAIN order |->
                              [tag |-> ColumnId(order[i]),
                               text |-> CellTexts[((r + i) % 4) + 1]]]]]

PrimaryTables ==
    {Table(cols, n) : cols \in SUBSET DOMAIN ColumnNames, n \in 0..MaxRows}

\* second tables: time and volume columns present or not, no or one row
HistoryTables == {Table(cols, n) : cols \in SUBSET {4, 5}, n \in 0..1}

\* a further table, beyond the second
ExtraTable == Table({4, 5}, 1)

DataGroups ==
    {<<>>} \cup
    {<<p>> : p \in PrimaryTables} \cup
    {<<p, h>> : p \in PrimaryTables, h \in HistoryTables} \cup
    {<<p, h>> \o [i \in 1..n |-> ExtraTable] :
        p \in PrimaryTables, h \in {ExtraTable}, n \in 1..(MaxGroups - 2)}

(***************************************************************************)
(* Spec: each extractor called on its own.  The root holds the elements    *)
(* the extractor reads.                                                    *)
(***************************************************************************)
Optional(name, values) == Dicts({name}, values)

MetadataRoots ==
    {a @@ v : a \in Optional("fileAuthor", {NoneType, <<"K. Author">>}),
              v \in Optional("fileVersion",
                             Dicts({"major", "minor"},
                                   {NoneType, <<"1">>, <<"5">>, <<"x">>}))}

ReferenceRoots == Optional("bibliographyLink", BibliographyLinks)

KindRoots ==
    {t @@ k : t \in Optional("experimentType", ExperimentTypes),
              k \in Optional("apparatus/kind", ApparatusKinds)}

CommonRoots ==
    {k @@ c : k \in Optional("apparatus/kind", ApparatusKinds),
              c \in Optional("commonProperties",
                     SeqsOf(PropertyBlocks, 0, MaxProps) \cup
                     {<<Composition(ul)>> :
                         ul \in SeqsOf(AmountUnits, 0, MaxSpecies)})}

IgnitionRoots == Optional("ignitionType", IgnitionElements)

DatapointRoots ==
    {k @@ ("dataGroup" :> g) :
        k \in Optional("apparatus/kind", SupportedKinds), g \in DataGroups}

NoLookup == [outcome |-> "ConnectionError"]
NoArgs == [file_author |-> "", file_author_orcid |-> ""]
NoEdit == <<>>

\* the state before a call of function f on root rt
Called(f, rt, lk) ==
    /\ fn = f
    /\ root = rt
    /\ lookup = lk
    /\ args = NoArgs
    /\ pc = "call"
    /\ err = "none"
    /\ properties = EmptyDict
    /\ heap = EmptyDict
    /\ edited = NoEdit
    /\ outfile = "absent"
    /\ ran = <<>>

Init ==
    \/ \E rt \in MetadataRoots : Called("get_file_metadata", rt, NoLookup)
    \/ \E rt \in ReferenceRoots, lk \in Lookups : Called("get_reference", rt, lk)
    \/ \E rt \in KindRoots : Called("get_experiment_kind", rt, NoLookup)
    \/ \E rt \in CommonRoots : Called("get_common_properties", rt, NoLookup)
    \/ \E rt \in IgnitionRoots : Called("get_ignition_type", rt, NoLookup)
    \/ \E rt \in DatapointRoots : Called("get_datapoints", rt, NoLookup)

\* the call ends: it returns r.val or raises r.err
Finish(r) ==
    /\ err' = r.err
    /\ properties' = r.val
    /\ pc' = IF r.err = "none" THEN "return" ELSE "raise"
    /\ UNCHANGED <<root, lookup, args, fn, heap, edited, outfile, ran>>

CallGetFileMetadata ==
    fn = "get_file_metadata" /\ pc = "call" /\ Finish(get_file_metadata(root))

CallGetReference ==
    fn = "get_reference" /\ pc = "call" /\ Finish(get_reference(root, lookup))

CallGetExperimentKind ==
    fn = "get_experiment_kind" /\ pc = "call"
        /\ Finish(get_experiment_kind(root))

CallGetCommonProperties ==
    fn = "get_common_properties" /\ pc = "call"
        /\ Finish(get_common_properties(root))

CallGetIgnitionType ==
    fn = "get_ignition_type" /\ pc = "call" /\ Finish(get_ignition_type(root))

CallGetDatapoints ==
    fn = "get_datapoints" /\ pc = "call" /\ Finish(get_datapoints(root))

Next ==
    \/ CallGetFileMetadata
    \/ CallGetReference
    \/ CallGetExperimentKind
    \/ CallGetCommonProperties
    \/ CallGetIgnitionType
    \/ CallGetDatapoints

Spec == Init /\ [][Next]_vars

\* the call of function f is over
Done(f) == fn = f /\ pc \in {"return", "raise"}
Returned(f) == fn = f /\ pc = "return"
Raised(f, e) == fn = f /\ pc = "raise" /\ err = e

(***************************************************************************)
(* Claims about get_experiment_kind and get_reference.                     *)
(***************************************************************************)
HasKind == "apparatus/kind" \in DOMAIN root
IgnitionDelayDocument ==
    "experimentType" \in DOMAIN root
        /\ root["experimentType"] = "Ignition delay measurement"

\* C3: get_experiment_kind fails with NotImplementedError when apparatus/kind
\* is present with a value other than 'shock tube' or 'rapid compression
\* machine', and with MissingElementError only when the element is absent.
C3_UnsupportedKindIsNotImplemented ==
    Done("get_experiment_kind") /\ IgnitionDelayDocument =>
        /\ HasKind /\ root["apparatus/kind"] \notin SupportedKinds =>
               pc = "raise" /\ err = "NotImplementedError"
        /\ pc = "raise" /\ err = "MissingElementError" => ~ HasKind

\* the two shapes of a reference
DoiFields == {"doi", "journal", "year", "volume", "pages", "authors"}
DoiShape(reference) == DOMAIN reference \cap DoiFields # {}
CitationShape(reference) == "citation" \in DOMAIN reference

BibliographyLink == root["bibliographyLink"]

\* C4 (as stated): every reference get_reference returns has exactly one of
\* the two shapes, doi-based fields or citation fallback, never both and
\* never neither; without a doi the citation key is always populated.
C4_ExactlyOneShape ==
    Returned("get_reference") =>
        /\ DoiShape(properties) # CitationShape(properties)
        /\ "doi" \notin DOMAIN BibliographyLink => CitationShape(properties)

\* C4 (amended): a returned reference never has both shapes; it has the doi
\* shape exactly when a doi attribute is given (the doi itself, and the
\* journal, year, volume, pages and authors only when the lookup answered),
\* the citation shape exactly when no doi but a preferredKey is given, and
\* it is empty exactly when the link has neither attribute.
C4_AtMostOneShape ==
    Returned("get_reference") =>
        /\ ~ (DoiShape(properties) /\ CitationShape(properties))
        /\ DoiShape(properties) <=> "doi" \in DOMAIN BibliographyLink
        /\ "doi" \in DOMAIN BibliographyLink =>
               /\ properties["doi"] = BibliographyLink["doi"]
               /\ DOMAIN properties =
                      IF lookup.outcome = "message" THEN DoiFields ELSE {"doi"}
        /\ CitationShape(properties) <=>
               DOMAIN BibliographyLink = {"preferredKey"}
        /\ CitationShape(properties) =>
               properties["citation"] = BibliographyLink["preferredKey"]
        /\ DOMAIN properties = {} <=> DOMAIN BibliographyLink = {}

\* C4 witnesses: a citation-only reference, and an empty one, are returned
C4_Witness ==
    /\ Returned("get_reference")
    /\ DOMAIN BibliographyLink = {}
    /\ DOMAIN properties = {}

\* C5: with a doi present and a lookup answering HTTPError or RequestError,
\* get_reference fails with a KeywordError-class error (and returns nothing).
C5_NotFoundIsKeywordError ==
    /\ Done("get_reference")
    /\ "bibliographyLink" \in DOMAIN root
    /\ "doi" \in DOMAIN root["bibliographyLink"]
    /\ lookup.outcome \in {"HTTPError", "RequestError"}
    => pc = "raise" /\ err \in KeywordErrorClass

(***************************************************************************)
(* Claims about get_common_properties.                                     *)
(***************************************************************************)
Blocks == root["commonProperties"]

\* the document's commonProperties are one 'initial composition' block
SingleComposition ==
    /\ "commonProperties" \in DOMAIN root
    /\ Len(Blocks) = 1
    /\ Blocks[1].name = "initial composition"

SpeciesUnits == [i \in DOMAIN Blocks[1].component |-> Blocks[1].component[i].units]

\* C6: for a composition of at least two species, if some species' amount
\* unit differs from the first species' unit, get_common_properties fails
\* with the inconsistency KeywordError; so whenever it returns, all species
\* share one unit, and composition.kind is that unit and is 'mole fraction'
\* or 'mass fraction'.
C6_MixedUnitsRejected ==
    Done("get_common_properties") /\ SingleComposition
        /\ Len(SpeciesUnits) >= 2 =>
        /\ (\E i \in DOMAIN SpeciesUnits : SpeciesUnits[i] # SpeciesUnits[1]) =>
               pc = "raise" /\ err = "KeywordError"
        /\ pc = "return" =>
               /\ \A i \in DOMAIN SpeciesUnits : SpeciesUnits[i] = SpeciesUnits[1]
               /\ properties["composition"].kind = SpeciesUnits[1]
               /\ properties["composition"].kind \in CompositionKinds

\* block i is illegal for the document's apparatus
Offending(i) ==
    \/ root["apparatus/kind"] = "rapid compression machine"
           /\ Blocks[i].name = "pressure rise"
    \/ root["apparatus/kind"] = "shock tube"
           /\ Blocks[i].name = "compression time"

HasOffending ==
    /\ HasKind
    /\ "commonProperties" \in DOMAIN root
    /\ \E i \in DOMAIN Blocks : Offending(i)

NeverIllegalKey ==
    Returned("get_common_properties") /\ HasKind =>
        /\ ~ (root["apparatus/kind"] = "rapid compression machine"
                  /\ "pressure-rise" \in DOMAIN properties)
        /\ ~ (root["apparatus/kind"] = "shock tube"
                  /\ "compression-time" \in DOMAIN properties)

\* C10 (as stated): an RCM document with a 'pressure rise' property, or a
\* shock-tube document with a 'compression time' property, makes
\* get_common_properties fail with a KeywordError whatever the other
\* property blocks are; a returned mapping never has pressure-rise for RCM
\* nor compression-time for shock tube.
C10_IllegalPropertyIsKeywordError ==
    /\ Done("get_common_properties") /\ HasOffending =>
           pc = "raise" /\ err \in KeywordErrorClass
    /\ NeverIllegalKey

\* C10 (amended): such a document always makes get_common_properties fail,
\* and a returned mapping never has the illegal key; the failure is a
\* KeywordError unless a block before the illegal one failed first, which
\* is then an 'initial composition' block failing its assertion.
C10_IllegalPropertyFails ==
    /\ Done("get_common_properties") /\ HasOffending =>
           /\ pc = "raise"
           /\ err # "KeywordError" =>
                  /\ err = "AssertionError"
                  /\ \E i \in DOMAIN Blocks : Offending(i) /\
                         \E j \in 1..(i - 1) :
                             Blocks[j].name = "initial composition"
    /\ NeverIllegalKey

\* C10 witness: the illegal block, after a legal one, raised the KeywordError
C10_Witness ==
    /\ Raised("get_common_properties", "KeywordError")
    /\ HasOffending
    /\ Len(Blocks) = 2
    /\ Offending(2)
    /\ Blocks[1].name = "temperature"

(***************************************************************************)
(* Claims about get_ignition_type.                                         *)
(***************************************************************************)
IgnitionElement == root["ignitionType"]

\* the target string without its trailing semicolons
Stripped(s) ==
    LET kept == {i \in DOMAIN s : s[i] # ";"}
    IN  SubSeq(s, 1, IF kept = {} THEN 0
                     ELSE CHOOSE i \in kept : \A j \in kept : j <= i)

\* a semicolon is left once the trailing ones are gone
StillMultiple(s) == \E i \in DOMAIN s : s[i] = ";" /\ \E j \in DOMAIN s : j > i /\ s[j] # ";"

\* s spells w, whatever its case
Spells(s, w) == Len(s) = Len(w) /\ \A i \in DOMAIN s : upper_char(s[i]) = w[i]

\* accepted spelling |-> target reported
Vocabulary ==
    {<< <<"P">>, PRESSURE >>, << <<"T">>, TEMPERATURE >>,
     << <<"O", "H">>, <<"O", "H">> >>, << OHEX, OHstar >>, << OHstar, OHstar >>,
     << <<"C", "H">>, <<"C", "H">> >>, << CHEX, CHstar >>, << CHstar, CHstar >>}

InVocabulary(s) == \E v \in Vocabulary : Spells(Stripped(s), v[1])

\* a required attribute of the ignitionType element is missing
RequiredMissing ==
    \/ "target" \notin DOMAIN IgnitionElement
    \/ "type" \notin DOMAIN IgnitionElement
    \/ /\ IgnitionElement["type"] \in ConcentrationTypes
       /\ ~ ({"amount", "units"} \subseteq DOMAIN IgnitionElement)

\* C7 (as stated): whenever a required attribute is missing (target or type
\* always, amount or units for a concentration type), get_ignition_type
\* fails with MissingAttributeError, never NotImplementedError, whatever the
\* attributes that are present hold.
C7_MissingAttributeAlwaysFirst ==
    Done("get_ignition_type") /\ "ignitionType" \in DOMAIN root
        /\ RequiredMissing =>
        pc = "raise" /\ err = "MissingAttributeError"

\* C7 (amended): a missing target or type always fails with
\* MissingAttributeError; a missing amount or units of a concentration type
\* fails with MissingAttributeError when the target is one accepted target,
\* but a multi-target string fails with NotImplementedError and any other
\* target outside the vocabulary with UndefinedKeywordError first.
C7_MissingAttributePrecedence ==
    Done("get_ignition_type") /\ "ignitionType" \in DOMAIN root
        /\ RequiredMissing =>
        /\ pc = "raise"
        /\ err = IF ~ ({"target", "type"} \subseteq DOMAIN IgnitionElement)
                 THEN "MissingAttributeError"
                 ELSE IF StillMultiple(IgnitionElement["target"])
                 THEN "NotImplementedError"
                 ELSE IF ~ InVocabulary(IgnitionElement["target"])
                 THEN "UndefinedKeywordError"
                 ELSE "MissingAttributeError"

\* C7 witness: a concentration type on an accepted target, units missing
C7_Witness ==
    /\ Raised("get_ignition_type", "MissingAttributeError")
    /\ "ignitionType" \in DOMAIN root
    /\ DOMAIN IgnitionElement = {"target", "type", "amount"}
    /\ IgnitionElement["type"] = "relative concentration"
    /\ IgnitionElement["target"] = <<"o", "h", "e", "x">>

\* C8: whenever get_ignition_type returns, the target is pressure,
\* temperature, OH, OH*, CH or CH* - the one the stripped, upper-cased input
\* spells, P and T renamed, OHEX and CHEX mapped - and the type is 'max' or
\* 'd/dt max'; with target and type given, a target that still has a
\* semicolon after stripping fails with NotImplementedError, any other
\* target outside the vocabulary fails with UndefinedKeywordError, and a
\* concentration type never returns.
C8_ReturnedTargetAndType ==
    /\ Returned("get_ignition_type") =>
           /\ \E v \in Vocabulary :
                  /\ Spells(Stripped(IgnitionElement["target"]), v[1])
                  /\ properties.target = v[2]
           /\ properties.type \in {"max", "d/dt max"}
           /\ properties.type = IgnitionElement["type"]
    /\ Done("get_ignition_type") /\ "ignitionType" \in DOMAIN root
           /\ {"target", "type"} \subseteq DOMAIN IgnitionElement =>
           /\ StillMultiple(IgnitionElement["target"]) =>
                  pc = "raise" /\ err = "NotImplementedError"
           /\ ~ StillMultiple(IgnitionElement["target"])
                  /\ ~ InVocabulary(IgnitionElement["target"]) =>
                  pc = "raise" /\ err = "UndefinedKeywordError"
           /\ IgnitionElement["type"] \in ConcentrationTypes => pc = "raise"

\* C8 witness: 'ohex' with a trailing semicolon is returned as OH*
C8_Witness ==
    /\ Returned("get_ignition_type")
    /\ IgnitionElement["target"] = OHEX \o <<";">>
    /\ properties.target = OHstar
    /\ properties.type = "d/dt max"

(***************************************************************************)
(* Claims about get_datapoints.                                            *)
(***************************************************************************)
Tables == root["dataGroup"]
PrimaryRows == Len(Tables[1].dataPoint)
HasHistory(datapoint) == "volume-history" \in DOMAIN datapoint

\* a column of the primary table is itself named volume-history
HistoryNamedColumn ==
    \E i \in DOMAIN Tables[1].property :
        Tables[1].property[i].name = "volume-history"

\* a volume-history key is on the first datapoint only, and only for two
\* tables, an RCM apparatus and one primary datapoint
HistoryPlacement ==
    \A i \in DOMAIN properties :
        HasHistory(properties[i]) =>
            /\ i = 1
            /\ Len(Tables) = 2
            /\ HasKind /\ root["apparatus/kind"] = "rapid compression machine"
            /\ PrimaryRows = 1

\* two tables need an RCM apparatus and one primary datapoint; more than two
\* tables are not implemented
TableCountFailures ==
    Done("get_datapoints") /\ Len(Tables) >= 2 =>
        /\ Len(Tables) = 2
               /\ (PrimaryRows # 1
                       \/ (HasKind /\ root["apparatus/kind"] = "shock tube")) =>
               pc = "raise"
        /\ Len(Tables) > 2 => pc = "raise" /\ err = "NotImplementedError"

\* C9 (as stated): on every document on which get_datapoints returns, a
\* volume-history key is on no datapoint but the first, and only if the
\* source had exactly two dataGroup tables, the apparatus is RCM and the
\* primary table gave exactly one datapoint; two tables with a shock tube or
\* with a number of primary datapoints other than one fail, and more than two
\* tables fail with NotImplementedError.
C9_HistoryOnlyFromSecondTable ==
    /\ Returned("get_datapoints") => HistoryPlacement
    /\ TableCountFailures

\* C9 (amended): the same, for documents whose primary table has no column
\* that is itself named 'volume-history' (such a column puts that key on
\* every datapoint).
C9_HistoryOnlyFromSecondTableUnlessNamed ==
    /\ Returned("get_datapoints") /\ ~ HistoryNamedColumn => HistoryPlacement
    /\ TableCountFailures

\* C9 witness: the history of the second table is on the one datapoint
C9_Witness ==
    /\ Returned("get_datapoints")
    /\ ~ HistoryNamedColumn
    /\ Len(Tables) = 2
    /\ Len(properties) = 1
    /\ HasHistory(properties[1])
    /\ properties[1]["volume-history"].values = << << <<3>>, <<4>> >> >>

(***************************************************************************)
(* Claims about get_file_metadata.                                         *)
(***************************************************************************)
\* the version information of the root is incomplete: fileVersion, or its
\* major or minor child, is absent
VersionMissing ==
    \/ "fileVersion" \notin DOMAIN root
    \/ {"major", "minor"} \ DOMAIN root["fileVersion"] # {}

\* the returned record has the three keys, an integer version, and the
\* defaults where the document gives nothing
MetadataRecord ==
    /\ DOMAIN properties = {"file-author", "file-version", "chemked-version"}
    /\ "name" \in DOMAIN properties["file-author"]
    /\ properties["file-version"] \in Nat
    /\ "fileAuthor" \notin DOMAIN root =>
           properties["file-author"].name = <<"">>
    /\ VersionMissing => properties["file-version"] = 0

\* C11: get_file_metadata never fails: whatever the root holds (fileAuthor
\* absent or present, fileVersion absent or present, major and minor each
\* absent, empty or with any text), the call returns a record with
\* file-author.name, an integer file-version and chemked-version, with the
\* empty name and version 0 where the author or the version is missing.
C11_GetFileMetadataNeverFails ==
    Done("get_file_metadata") =>
        /\ pc = "return"
        /\ MetadataRecord

(***************************************************************************)
(* read_experiment, lines 433-504, and convert_ReSpecTh_to_ChemKED, lines  *)
(* 507-557: one action per stage.                                          *)
(***************************************************************************)
\* dp.get(key) is truthy: every value of a datapoint is a non-empty list
\* (or the volume-history dict), so this is the presence of the key
truthy_get(dp, key) == key \in DOMAIN dp

any_datapoint_has(datapoints, key) ==
    \E i \in DOMAIN datapoints : truthy_get(datapoints[i], key)

\* lines 483-490
time_values_missing(common, datapoints) ==
    IF "volume" \in DOMAIN common /\ "time" \notin DOMAIN common THEN TRUE
    ELSE any_datapoint_has(datapoints, "volume")
             /\ ~ any_datapoint_has(datapoints, "time")

\* lines 492-499
volume_and_pressure_rise(common, datapoints) ==
    \/ "volume" \in DOMAIN common /\ "pressure-rise" \in DOMAIN common
    \/ "volume" \in DOMAIN common
           /\ any_datapoint_has(datapoints, "pressure-rise")
    \/ "pressure-rise" \in DOMAIN common
           /\ any_datapoint_has(datapoints, "volume")

\* lines 482-502: the consistency checks closing read_experiment
consistency_checks(common, datapoints) ==
    IF time_values_missing(common, datapoints) THEN Raise("KeywordError")
    ELSE IF volume_and_pressure_rise(common, datapoints)
    THEN Raise("KeywordError")
    ELSE Ok(TRUE)

\* lines 541-543: what datapoint idx holds for key after the broadcast: the
\* object of common-properties itself (owner 0) for a common property, its
\* own object otherwise
broadcast_object(idx, key, common) ==
    IF key \in DOMAIN common THEN <<0, key>> ELSE <<idx, key>>

\* an in-place edit of a property value: an item of a list is replaced, a
\* key of the composition / ignition-type dict is set
edit_in_place(prop, value) ==
    CASE prop = "composition" -> [value EXCEPT !.kind = "edited"]
      [] prop = "ignition-type" -> [value EXCEPT !.type = "edited"]
      [] OTHER -> [value EXCEPT ![1] = <<"edited", "edited">>]

\* Abort with the output file opened before the document is read
Abort_output_opened(st, e) ==
    /\ pc' = "raise"
    /\ err' = e
    /\ ran' = Append(ran, st)
    /\ outfile' = "empty"
    /\ UNCHANGED <<root, lookup, args, fn, properties, heap, edited>>

\* the stage st raises e: the conversion is over
Abort(st, e) ==
    /\ pc' = "raise"
    /\ err' = e
    /\ ran' = Append(ran, st)
    /\ UNCHANGED <<root, lookup, args, fn, properties, heap, edited, outfile>>

\* the stage st stored its result and hands over to the stage nxt
Advance(st, nxt, props) ==
    /\ pc' = nxt
    /\ properties' = props
    /\ ran' = Append(ran, st)
    /\ UNCHANGED <<root, lookup, args, fn, err, heap, edited, outfile>>

\* line 457
ReadFileMetadata ==
    /\ fn = "convert" /\ pc = "metadata"
    /\ LET r == get_file_metadata(root)
       IN  IF r.err # "none" THEN Abort("metadata", r.err)
           ELSE Advance("metadata", "reference", r.val @@ properties)

\* lines 460-462
ReadReference ==
    /\ fn = "convert" /\ pc = "reference"
    /\ LET r == get_reference(root, lookup)
       IN  IF r.err # "none" THEN Abort("reference", r.err)
           ELSE Advance("reference", "experiment_kind",
                    ("reference" :>
                        (("detail" :> "Converted from file.xml") @@ r.val))
                    @@ properties)

\* line 465
ReadExperimentKind ==
    /\ fn = "convert" /\ pc = "experiment_kind"
    /\ LET r == get_experiment_kind(root)
       IN  IF r.err # "none" THEN Abort("experiment_kind", r.err)
           ELSE Advance("experiment_kind", "common_properties",
                        r.val @@ properties)

\* line 468
ReadCommonProperties ==
    /\ fn = "convert" /\ pc = "common_properties"
    /\ LET r == get_common_properties(root)
       IN  IF r.err # "none" THEN Abort("common_properties", r.err)
           ELSE Advance("common_properties", "ignition_type",
                        ("common-properties" :> r.val) @@ properties)

\* line 471
ReadIgnitionType ==
    /\ fn = "convert" /\ pc = "ignition_type"
    /\ LET r == get_ignition_type(root)
       IN  IF r.err # "none" THEN Abort("ignition_type", r.err)
           ELSE Advance("ignition_type", "datapoints",
                    [properties EXCEPT !["common-properties"] =
                        ("ignition-type" :> r.val) @@ @])

\* line 474
ReadDatapoints ==
    /\ fn = "convert" /\ pc = "datapoints"
    /\ LET r == get_datapoints(root)
       IN  IF r.err # "none" THEN Abort("datapoints", r.err)
           ELSE Advance("datapoints", "consistency",
                        ("datapoints" :> r.val) @@ properties)

\* lines 482-504: read_experiment raises, or returns the record
CheckConsistency ==
    /\ fn = "convert" /\ pc = "consistency"
    /\ LET r == consistency_checks(properties["common-properties"],
                                   properties["datapoints"])
       IN  IF r.err # "none" THEN Abort("consistency", r.err)
           ELSE Advance("consistency", "overrides", properties)

\* lines 535-538
ApplyOverrides ==
    /\ fn = "convert" /\ pc = "overrides"
    /\ LET author == properties["file-author"]
           named == IF args.file_author # ""
                    THEN [author EXCEPT !.name = <<args.file_author>>]
                    ELSE author
           orcid == IF args.file_author_orcid # ""
                    THEN ("ORCID" :> args.file_author_orcid) @@ named
                    ELSE named
       IN  Advance("overrides", "broadcast",
                   [properties EXCEPT !["file-author"] = orcid])

\* lines 541-543: every common property is stored into every datapoint.  From
\* here on the record holds objects: heap maps an object <<owner, key>> to
\* its value, and common-properties and the datapoints map keys to objects.
Broadcast ==
    /\ fn = "convert" /\ pc = "broadcast"
    /\ LET common == properties["common-properties"]
           datapoints == properties["datapoints"]
           objects == {<<0, key>> : key \in DOMAIN common} \cup
                      UNION {{<<idx, key>> : key \in DOMAIN datapoints[idx]} :
                                idx \in DOMAIN datapoints}
       IN  /\ heap' = [o \in objects |->
                          IF o[1] = 0 THEN common[o[2]]
                          ELSE datapoints[o[1]][o[2]]]
           /\ properties' =
                  [properties EXCEPT
                      !["common-properties"] =
                          [key \in DOMAIN common |-> <<0, key>>],
                      !["datapoints"] =
                          [idx \in DOMAIN datapoints |->
                              [key \in DOMAIN datapoints[idx] \cup DOMAIN common
                                  |-> broadcast_object(idx, key, common)]]]
    /\ pc' = "write"
    /\ ran' = Append(ran, "broadcast")
    /\ UNCHANGED <<root, lookup, args, fn, err, edited, outfile>>

\* lines 545-551: the output file is opened for writing, then yaml.dump is
\* evaluated; the module never imports yaml, so this raises NameError with
\* the file left empty, and line 555 (the validator) is not reached
WriteOutput ==
    /\ fn = "convert" /\ pc = "write"
    /\ outfile' = "empty"
    /\ pc' = "raise"
    /\ err' = "NameError"
    /\ ran' = Append(ran, "write")
    /\ UNCHANGED <<root, lookup, args, fn, properties, heap, edited>>

\* a later in-place edit of datapoint idx's value for the common property
\* prop, made on the record as the broadcast left it
EditDatapoint ==
    /\ fn = "convert" /\ pc = "write" /\ edited = NoEdit
    /\ \E idx \in DOMAIN properties["datapoints"],
          prop \in DOMAIN properties["common-properties"] :
          LET object == properties["datapoints"][idx][prop]
          IN  /\ heap' = [heap EXCEPT
                             ![object] = edit_in_place(prop, heap[object])]
              /\ edited' = <<idx, prop>>
    /\ UNCHANGED <<root, lookup, args, fn, pc, err, properties, outfile, ran>>

NextConvert ==
    \/ ReadFileMetadata
    \/ ReadReference
    \/ ReadExperimentKind
    \/ ReadCommonProperties
    \/ ReadIgnitionType
    \/ ReadDatapoints
    \/ CheckConsistency
    \/ ApplyOverrides
    \/ Broadcast
    \/ WriteOutput
    \/ EditDatapoint

(***************************************************************************)
(* The documents converted.                                                *)
(***************************************************************************)
\* a primary table whose rows do not all have the same cells: the first row
\* has time and volume, the others have pressure-rise
RaggedTable(nrows) ==
    LET t == Table({1, 4, 5, 6}, nrows)
        keep(r) == IF r = 1 THEN {1, 4, 5} ELSE {1, 6}
    IN  [t EXCEPT !.dataPoint =
            [r \in DOMAIN t.dataPoint |->
                SelectSeq(t.dataPoint[r],
                          LAMBDA val : \E c \in keep(r) : val.tag = ColumnId(c))]]

ConvertTables ==
    {Table({1} \cup cols, n) : cols \in SUBSET {4, 5, 6}, n \in 1..MaxRows}
        \cup {RaggedTable(n) : n \in 2..MaxRows}

ConvertDataGroups ==
    {<<p>> : p \in ConvertTables} \cup
    {<<p, ExtraTable>> : p \in ConvertTables} \cup
    {<<p, ExtraTable, ExtraTable>> : p \in ConvertTables}

ConvertCommon ==
    {<<>>, <<Property("temperature", "K")>>,
     <<Property("pressure rise", "1/ms")>>,
     <<Property("pressure", "Torr"), Property("compression time", "ms")>>,
     <<Composition(<<"mole fraction", "mole fraction">>),
       Property("temperature", "K")>>,
     <<Composition(<<"mole fraction", "mass fraction">>)>>}

ConvertIgnition ==
    {[target |-> <<"P">>, type |-> "max"],
     [target |-> OHEX \o <<";">>, type |-> "d/dt max"],
     [target |-> <<"P">>]}

ConvertMetadata ==
    {("fileAuthor" :> <<"K. Author">>) @@
         ("fileVersion" :> [major |-> <<"1">>, minor |-> <<"5">>]),
     ("fileVersion" :> [major |-> NoneType, minor |-> <<"5">>])}

ConvertLookups ==
    {[outcome |-> "ConnectionError"], [outcome |-> "HTTPError"],
     [outcome |-> "message",
      message |-> ("container-title" :> "J") @@ ("page" :> "1-9") @@
                  ("published-print" :> 2001) @@ ("volume" :> "12") @@
                  ("author" :> <<[given |-> "A", family |-> "B"]>>)]}

ConvertRoots ==
    {m @@ ("bibliographyLink" :> b) @@ ("experimentType" :> t) @@
         ("apparatus/kind" :> k) @@ ("commonProperties" :> c) @@
         ("ignitionType" :> i) @@ ("dataGroup" :> g) :
        m \in ConvertMetadata,
        b \in {[preferredKey |-> "Smith2001"], [doi |-> "10.1000/1"]},
        t \in ExperimentTypes,
        k \in SupportedKinds \cup {"flow reactor"},
        c \in ConvertCommon,
        i \in ConvertIgnition,
        g \in ConvertDataGroups}

ConvertArgs ==
    {NoArgs, [file_author |-> "New Author", file_author_orcid |-> "0000-0002"]}

InitConvert ==
    /\ root \in ConvertRoots
    /\ lookup \in ConvertLookups
    /\ args \in ConvertArgs
    /\ fn = "convert"
    /\ pc = "metadata"
    /\ err = "none"
    /\ properties = EmptyDict
    /\ heap = EmptyDict
    /\ edited = NoEdit
    /\ outfile = "absent"
    /\ ran = <<>>

SpecConvert == InitConvert /\ [][NextConvert]_vars

(***************************************************************************)
(* Claims about read_experiment and the broadcast.                         *)
(***************************************************************************)
\* the stage st has been executed
Ran(st) == \E i \in DOMAIN ran : ran[i] = st

CommonProperties == properties["common-properties"]
Datapoints == properties["datapoints"]

\* key is present somewhere in the assembled record
PresentAnywhere(key) ==
    \/ key \in DOMAIN CommonProperties
    \/ \E i \in DOMAIN Datapoints : key \in DOMAIN Datapoints[i]

\* C1: whenever volume and pressure-rise are both present anywhere in the
\* record read_experiment assembled (both in common-properties, one there and
\* one in a datapoint, or both only in datapoints), read_experiment fails
\* with a KeywordError instead of returning the record.
C1_VolumeWithPressureRiseFails ==
    fn = "convert" /\ Ran("consistency")
        /\ PresentAnywhere("volume") /\ PresentAnywhere("pressure-rise") =>
        /\ pc = "raise"
        /\ ran[Len(ran)] = "consistency"
        /\ err \in KeywordErrorClass

\* the value datapoint idx holds for key, and the one common-properties
\* holds, in the heap h
DatapointValue(h, idx, key) == h[Datapoints[idx][key]]
CommonValue(h, key) == h[CommonProperties[key]]

\* C2: after the broadcast every datapoint holds its own copy of every
\* common property: an in-place edit of datapoint i's value for p changes
\* neither another datapoint's value for p nor the value in
\* common-properties.
C2_EditLeavesOthersAlone ==
    [][edited = NoEdit /\ edited' # NoEdit =>
           LET i == edited'[1]
               p == edited'[2]
           IN  /\ \A j \in DOMAIN Datapoints \ {i} :
                      DatapointValue(heap', j, p) = DatapointValue(heap, j, p)
               /\ CommonValue(heap', p) = CommonValue(heap, p)]_vars

(***************************************************************************)
(* Claims about the order of the stages and the failure of a stage.        *)
(***************************************************************************)
\* the stages of read_experiment, and those of the converter after it
ReadStages ==
    <<"metadata", "reference", "experiment_kind", "common_properties",
      "ignition_type", "datapoints", "consistency">>
Stages == ReadStages \o <<"overrides", "broadcast", "write">>

IsPrefix(s, t) == Len(s) <= Len(t) /\ \A i \in DOMAIN s : s[i] = t[i]

\* the exception stage st raises on the document, "none" if it raises none;
\* the consistency checks have a record to look at only when the extractors
\* of common-properties, ignition-type and datapoints returned
StageError(st) ==
    CASE st = "metadata" -> get_file_metadata(root).err
      [] st = "reference" -> get_reference(root, lookup).err
      [] st = "experiment_kind" -> get_experiment_kind(root).err
      [] st = "common_properties" -> get_common_properties(root).err
      [] st = "ignition_type" -> get_ignition_type(root).err
      [] st = "datapoints" -> get_datapoints(root).err
      [] st = "consistency" ->
            LET c == get_common_properties(root)
                i == get_ignition_type(root)
                d == get_datapoints(root)
            IN  IF c.err # "none" \/ i.err # "none" \/ d.err # "none"
                THEN "none"
                ELSE consistency_checks(("ignition-type" :> i.val) @@ c.val,
                                        d.val).err

\* the number of the earliest stage that raises on the document, 0 if no
\* stage of read_experiment raises
EarliestFailure ==
    LET failing ==
            {n \in DOMAIN ReadStages : StageError(ReadStages[n]) # "none"}
    IN  IF failing = {} THEN 0
        ELSE CHOOSE n \in failing : \A m \in failing : n <= m

\* C12: fail-fast with no partial output: the stages run in the fixed order
\* metadata, reference, experiment kind, common properties, ignition
\* definition, datapoints, consistency checks; when a stage raises, no later
\* stage is executed, the exception that leaves the converter is that of the
\* earliest failing stage, and the output file is not written (nor is the
\* validator, which only follows the writing, reached).
C12_FailFastNoPartialOutput ==
    fn = "convert" =>
        /\ IsPrefix(ran, Stages)
        /\ LET n == EarliestFailure
           IN  IF n # 0
               THEN /\ Len(ran) <= n
                    /\ (Len(ran) = n) = (pc = "raise")
                    /\ pc = "raise" => err = StageError(ReadStages[n])
                    /\ outfile = "absent"
               ELSE pc = "raise" => Len(ran) > Len(ReadStages)

\* C12 witness: the ignition definition lacks its type and the datapoints
\* would fail as well; the conversion stopped at the ignition definition
\* with its error and without an output file
C12_Witness ==
    /\ fn = "convert" /\ pc = "raise"
    /\ ran = SubSeq(ReadStages, 1, 5)
    /\ err = "MissingAttributeError"
    /\ get_datapoints(root).err # "none"
    /\ outfile = "absent"

=============================================================================
